---- MODULE Spec2Model ----
(***************************************************************************)
(* Model of src/Lambdas/AutoScaleProcessor/lambda_function.py: the         *)
(* lambda_handler that re-encodes one uploaded image into the responsive   *)
(* variants, writes them to the destination bucket and logs one usage      *)
(* record.  Every invocation keeps its state in locals of lambda_handler;  *)
(* the destination bucket and the ImageMetadata table are the only shared  *)
(* state.  Strings that the code parses or formats (object keys, the       *)
(* quality and keep-original metadata) are tuples of characters.           *)
(***************************************************************************)
EXTENDS Integers, Sequences, FiniteSets, TLC

(* ------------------------------ bounds -------------------------------- *)
\* encoded payloads are 1..MaxEnc KiB long
MaxEnc == 2
\* source objects are 0..MaxSize KiB long
MaxSize == 2
\* in the savings study the thumbnail payload is 1..MaxDelta bytes long
MaxDelta == 3

(* ------------------------- program constants -------------------------- *)
DefaultQuality == 80
KB == 1024
PercentFactor == 100
Places == 2

DEST_BUCKET == "autoscaler-optimized-images-202512252014"
SIZES_short == <<"thumbnails", "medium">>
\* iteration order of the SIZES dict
SIZES == <<"thumbnails", "medium", "large">>
ORIGINAL_RES == "original_res"
WEBP == <<".", "w", "e", "b", "p">>

\* the concurrent invocations of lambda_handler
Runs == {"r1", "r2"}

(* ------------------------------ helpers ------------------------------- *)
RECURSIVE Pow10(_)
Pow10(n) == IF n = 0 THEN 1 ELSE 10 * Pow10(n - 1)

\* 10000: savings are kept in hundredths of a percent
Scale == PercentFactor * Pow10(Places)

\* round(n / d) to the nearest integer, ties to even, d > 0
RoundDiv(n, d) ==
    LET q == n \div d
        rem == n - q * d
    IN  IF 2 * rem < d THEN q
        ELSE IF 2 * rem > d THEN q + 1
        ELSE IF q % 2 = 0 THEN q ELSE q + 1

SavingsTrunc(o, t) == (Scale * (o - t)) \div o
\* round(((o - t) / o) * 100, 2), in hundredths of a percent
Savings(o, t) == RoundDiv(Scale * (o - t), o)

\* round(n / 1024, 2), in hundredths of a KiB
Kilobytes(n) == RoundDiv(PercentFactor * n, KB)

Digits == <<"0", "1", "2", "3", "4", "5", "6", "7", "8", "9">>
IsDigit(c) == \E i \in 1..10 : Digits[i] = c
DigitVal(c) == (CHOOSE i \in 1..10 : Digits[i] = c) - 1

RECURSIVE DecVal(_)
DecVal(s) ==
    IF s = <<>> THEN 0
    ELSE 10 * DecVal(SubSeq(s, 1, Len(s) - 1)) + DigitVal(s[Len(s)])

\* int(s) for a str: an optional sign and at least one decimal digit,
\* otherwise ValueError
IntParse(s) ==
    LET signed == Len(s) > 0 /\ s[1] \in {"+", "-"}
        body == IF signed THEN Tail(s) ELSE s
    IN  IF body # <<>> /\ \A i \in 1..Len(body) : IsDigit(body[i])
        THEN [ok |-> TRUE,
              val |-> IF signed /\ s[1] = "-" THEN 0 - DecVal(body)
                      ELSE DecVal(body)]
        ELSE [ok |-> FALSE, val |-> 0]

\* int(metadata.get('quality', 80))
QualityOf(md) ==
    IF md.quality.present THEN IntParse(md.quality.s)
    ELSE [ok |-> TRUE, val |-> DefaultQuality]

UpperChars == <<"T", "R", "U", "E", "F", "A", "L", "S">>
LowerChars == <<"t", "r", "u", "e", "f", "a", "l", "s">>
LowerChar(c) ==
    IF \E i \in 1..Len(UpperChars) : UpperChars[i] = c
    THEN LowerChars[CHOOSE i \in 1..Len(UpperChars) : UpperChars[i] = c]
    ELSE c
\* str.lower()
Lower(s) == [i \in 1..Len(s) |-> LowerChar(s[i])]

\* metadata.get('keep-original', 'false').lower() == 'true'
KeepOriginalOf(md) ==
    LET v == IF md.keep.present THEN md.keep.s
             ELSE <<"f", "a", "l", "s", "e">>
    IN  Lower(v) = <<"t", "r", "u", "e">>

UserIdOf(md) == IF md.userid.present THEN md.userid.s ELSE "anonymous_user"
UserRoleOf(md) == IF md.userrole.present THEN md.userrole.s ELSE "guest"

DotsOf(k) == {i \in 1..Len(k) : k[i] = "."}
MinOf(S) == CHOOSE x \in S : \A y \in S : x <= y
MaxOf(S) == CHOOSE x \in S : \A y \in S : x >= y

\* key.split('.')[0]
FileId(k) ==
    IF DotsOf(k) = {} THEN k ELSE SubSeq(k, 1, MinOf(DotsOf(k)) - 1)

\* f"{size_name}/{file_id}.webp"
DestKey(name, fid) == <<name, "/">> \o fid \o WEBP

DecodableAnyLength(o) == o.valid
\* Image.open succeeds: a payload of zero bytes is never an image
Decodable(o) == o.valid /\ o.size > 0

(* --------------------------- input domains ---------------------------- *)
NoStr == [present |-> FALSE, s |-> ""]
NoSeq == [present |-> FALSE, s |-> <<>>]
Str(s) == [present |-> TRUE, s |-> s]

KeyA == <<"a", ".", "j">>
KeyAB == <<"a", ".", "b", ".", "j">>
KeyAC == <<"a", ".", "c", ".", "j">>
KeyB == <<"b", ".", "p">>
Keys == {KeyA, KeyAB, KeyAC, KeyB}

QualityMetas ==
    {NoSeq, Str(<<"0">>), Str(<<"9", "5">>), Str(<<"1", "5", "0">>),
     Str(<<"a", "b", "c">>), Str(<<>>)}
KeepMetas ==
    {NoSeq, Str(<<"t", "r", "u", "e">>), Str(<<"T", "r", "u", "e">>),
     Str(<<"f", "a", "l", "s", "e">>), Str(<<"1">>)}
Identities ==
    {[userid |-> NoStr, userrole |-> NoStr],
     [userid |-> Str("u1"), userrole |-> Str("admin")]}

Meta(q, k, id) ==
    [quality |-> q, keep |-> k, userid |-> id.userid, userrole |-> id.userrole]

AllVariants == {"thumbnails", "medium", "large", "original_res"}
EncSizes == {n * KB : n \in 1..MaxEnc}

\* the source objects of the option study: every combination of options
Objects ==
    {[key |-> k, meta |-> Meta(q, ko, id), size |-> n * KB, valid |-> v,
      encs |-> [x \in AllVariants |-> EncSizes]] :
        k \in {KeyA, KeyAB}, q \in QualityMetas, ko \in KeepMetas,
        id \in Identities, n \in 0..MaxSize, v \in BOOLEAN}

\* the source objects of the concurrency study: one payload length each
ConcObject(k, q, ko, n, e) ==
    [key |-> k, meta |-> Meta(q, ko, [userid |-> NoStr, userrole |-> NoStr]),
     size |-> n * KB, valid |-> TRUE, encs |-> [x \in AllVariants |-> {e * KB}]]
ConcObjects ==
    {ConcObject(KeyA, NoSeq, NoSeq, 1, 1),
     ConcObject(KeyA, Str(<<"9", "5">>), Str(<<"t", "r", "u", "e">>), MaxSize, MaxEnc),
     ConcObject(KeyAB, Str(<<"0">>), Str(<<"T", "r", "u", "e">>), MaxSize, 1),
     ConcObject(KeyAC, NoSeq, Str(<<"f", "a", "l", "s", "e">>), 1, MaxEnc),
     ConcObject(KeyB, Str(<<"9", "5">>), NoSeq, 1, 1)}

\* the source objects of the savings study: output within a few bytes of
\* the source length
SavingsObjects ==
    {[key |-> KeyA,
      meta |-> Meta(NoSeq, ko, [userid |-> NoStr, userrole |-> NoStr]),
      size |-> n, valid |-> TRUE,
      encs |-> [x \in AllVariants |->
                  IF x = "thumbnails" THEN 1..MaxDelta
                  ELSE IF x = "original_res" THEN {1, Scale}
                  ELSE {Scale}]] :
        ko \in {NoSeq, Str(<<"t", "r", "u", "e">>)},
        n \in {2 * Scale + d : d \in 1..(MaxDelta + 2)} \cup {4 * Scale + 1}}

IdleObject ==
    [key |-> KeyA, meta |-> Meta(NoSeq, NoSeq, [userid |-> NoStr, userrole |-> NoStr]),
     size |-> 0, valid |-> FALSE, encs |-> [x \in AllVariants |-> {}]]

AllDestKeys == {DestKey(n, FileId(k)) : n \in AllVariants, k \in Keys}
NoObject == [len |-> 0, by |-> "none"]

(* ------------------------------- state -------------------------------- *)
VARIABLES
    obj,                \* the source object each invocation's event names
    pc,                 \* position of each invocation in lambda_handler
    key,                \* locals of lambda_handler, per invocation
    metadata,
    user_id,
    user_role,
    custom_quality,
    keep_original_res,
    original_size,
    total_output_size,
    file_id,
    idx,                \* position of the loop over SIZES
    output_len,         \* len(output_bytes) / len(orig_optimized)
    savings,
    err,                \* the exception caught at line 106
    result,             \* what the harness observes
    written,            \* the put_object calls each invocation completed
    store,              \* DEST_BUCKET
    table               \* the ImageMetadata table, in order of put_item

locals == <<key, metadata, user_id, user_role, custom_quality,
            keep_original_res, original_size, total_output_size, file_id,
            idx, output_len, savings>>
vars == <<obj, pc, locals, err, result, written, store, table>>

InitWith(objs) ==
    /\ obj \in objs
    /\ pc = [r \in Runs |-> IF obj[r] = IdleObject THEN "off" ELSE "idle"]
    /\ key = [r \in Runs |-> <<>>]
    /\ metadata = [r \in Runs |-> Meta(NoSeq, NoSeq, [userid |-> NoStr, userrole |-> NoStr])]
    /\ user_id = [r \in Runs |-> ""]
    /\ user_role = [r \in Runs |-> ""]
    /\ custom_quality = [r \in Runs |-> 0]
    /\ keep_original_res = [r \in Runs |-> FALSE]
    /\ original_size = [r \in Runs |-> 0]
    /\ total_output_size = [r \in Runs |-> 0]
    /\ file_id = [r \in Runs |-> <<>>]
    /\ idx = [r \in Runs |-> 0]
    /\ output_len = [r \in Runs |-> 0]
    /\ savings = [r \in Runs |-> 0]
    /\ err = [r \in Runs |-> "none"]
    /\ result = [r \in Runs |-> "none"]
    /\ written = [r \in Runs |-> <<>>]
    /\ store = [k \in AllDestKeys |-> NoObject]
    /\ table = <<>>

\* one upload, every combination of options
Init == InitWith({[r \in Runs |-> IF r = "r1" THEN o ELSE IdleObject] : o \in Objects})
\* two uploads handled concurrently
InitConc == InitWith([Runs -> ConcObjects])
\* one upload whose output is about as long as the source
InitSavings == InitWith({[r \in Runs |-> IF r = "r1" THEN o ELSE IdleObject] : o \in SavingsObjects})

(* ------------------------------ actions ------------------------------- *)
Set(f, r, v) == [f EXCEPT ![r] = v]

\* an exception leaves the try block for the handler at line 106
RaiseIn(r, e) ==
    /\ pc' = Set(pc, r, "except")
    /\ err' = Set(err, r, e)

AccumulateShared(tot, r, n) == [q \in Runs |-> tot[q] + n]
AccumulateLast(tot, r, n) == [tot EXCEPT ![r] = n]
\* total_output_size += n, on the invocation's own local
Accumulate(tot, r, n) == [tot EXCEPT ![r] = @ + n]

WritesOriginalAlways(r) == TRUE
\* the test of line 74
WritesOriginal(r) == keep_original_res[r]

\* s3.put_object(Bucket=DEST_BUCKET, Key=k, Body=..., ContentType='image/webp')
PutObject(r, name) ==
    LET k == DestKey(name, file_id[r])
    IN  /\ store' = [store EXCEPT ![k] = [len |-> output_len[r], by |-> r]]
        /\ written' = Set(written, r,
               Append(written[r], [name |-> name, key |-> k, len |-> output_len[r]]))

StoreRolledBack(r) ==
    [k \in AllDestKeys |-> IF store[k].by = r THEN NoObject ELSE store[k]]
\* the handler of lines 106-108 touches no object of DEST_BUCKET
StoreAfterExcept(r) == store

Swallowed == "200"
\* raise e at line 108: the harness sees a failed invocation
Reraised == "error"

\* the Item of lines 92-103 (processing_time_ms and timestamp are wall
\* clock readings and are left out)
Item(r) ==
    [image_id |-> Len(table) + 1,
     user_id |-> user_id[r],
     user_role |-> user_role[r],
     file_name |-> key[r],
     quality_used |-> custom_quality[r],
     original_size_kb |-> Kilobytes(original_size[r]),
     total_output_kb |-> Kilobytes(total_output_size[r]),
     savings_percent |-> savings[r],
     by |-> r]

\* lines 24-28: the event is delivered and names the object
Invoke(r) ==
    /\ pc[r] = "idle"
    /\ key' = Set(key, r, obj[r].key)
    /\ pc' = Set(pc, r, "head")
    /\ UNCHANGED <<obj, metadata, user_id, user_role, custom_quality,
                   keep_original_res, original_size, total_output_size,
                   file_id, idx, output_len, savings, err, result, written,
                   store, table>>

\* lines 31-32: head_object
HeadObject(r) ==
    /\ pc[r] = "head"
    /\ metadata' = Set(metadata, r, obj[r].meta)
    /\ pc' = Set(pc, r, "opts")
    /\ UNCHANGED <<obj, key, user_id, user_role, custom_quality,
                   keep_original_res, original_size, total_output_size,
                   file_id, idx, output_len, savings, err, result, written,
                   store, table>>

\* lines 34-41: the options; int() raises ValueError on a malformed quality
ResolveOptions(r) ==
    /\ pc[r] = "opts"
    /\ user_id' = Set(user_id, r, UserIdOf(metadata[r]))
    /\ user_role' = Set(user_role, r, UserRoleOf(metadata[r]))
    /\ IF QualityOf(metadata[r]).ok
       THEN /\ custom_quality' = Set(custom_quality, r, QualityOf(metadata[r]).val)
            /\ keep_original_res' = Set(keep_original_res, r, KeepOriginalOf(metadata[r]))
            /\ pc' = Set(pc, r, "get")
            /\ UNCHANGED err
       ELSE /\ RaiseIn(r, "ValueError")
            /\ UNCHANGED <<custom_quality, keep_original_res>>
    /\ UNCHANGED <<obj, key, metadata, original_size, total_output_size,
                   file_id, idx, output_len, savings, result, written,
                   store, table>>

\* lines 44-49: get_object, the byte count, the output file identifier
GetObject(r) ==
    /\ pc[r] = "get"
    /\ original_size' = Set(original_size, r, obj[r].size)
    /\ total_output_size' = Set(total_output_size, r, 0)
    /\ file_id' = Set(file_id, r, FileId(key[r]))
    /\ pc' = Set(pc, r, "open")
    /\ UNCHANGED <<obj, key, metadata, user_id, user_role, custom_quality,
                   keep_original_res, idx, output_len, savings, err, result,
                   written, store, table>>

\* lines 51-54: Image.open raises on bytes that are no image
OpenImage(r) ==
    /\ pc[r] = "open"
    /\ IF Decodable(obj[r])
       THEN /\ idx' = Set(idx, r, 1)
            /\ pc' = Set(pc, r, "enc")
            /\ UNCHANGED err
       ELSE /\ RaiseIn(r, "UnidentifiedImageError")
            /\ UNCHANGED idx
    /\ UNCHANGED <<obj, key, metadata, user_id, user_role, custom_quality,
                   keep_original_res, original_size, total_output_size,
                   file_id, output_len, savings, result, written, store,
                   table>>

\* lines 58-65: copy, thumbnail, save as WEBP, add the length to the total
EncodeVariant(r) ==
    /\ pc[r] = "enc"
    /\ \E n \in obj[r].encs[SIZES[idx[r]]] :
          /\ output_len' = Set(output_len, r, n)
          /\ total_output_size' = Accumulate(total_output_size, r, n)
    /\ pc' = Set(pc, r, "put")
    /\ UNCHANGED <<obj, key, metadata, user_id, user_role, custom_quality,
                   keep_original_res, original_size, file_id, idx, savings,
                   err, result, written, store, table>>

\* lines 66-71, then the next iteration or the test of line 74
PutVariant(r) ==
    /\ pc[r] = "put"
    /\ PutObject(r, SIZES[idx[r]])
    /\ idx' = Set(idx, r, idx[r] + 1)
    /\ pc' = Set(pc, r, IF idx[r] < Len(SIZES) THEN "enc"
                        ELSE IF WritesOriginal(r) THEN "enc_orig"
                        ELSE "metrics")
    /\ UNCHANGED <<obj, key, metadata, user_id, user_role, custom_quality,
                   keep_original_res, original_size, total_output_size,
                   file_id, output_len, savings, err, result, table>>

\* lines 75-78: the unresized image saved as WEBP
EncodeOriginal(r) ==
    /\ pc[r] = "enc_orig"
    /\ \E n \in obj[r].encs[ORIGINAL_RES] :
          /\ output_len' = Set(output_len, r, n)
          /\ total_output_size' = Accumulate(total_output_size, r, n)
    /\ pc' = Set(pc, r, "put_orig")
    /\ UNCHANGED <<obj, key, metadata, user_id, user_role, custom_quality,
                   keep_original_res, original_size, file_id, idx, savings,
                   err, result, written, store, table>>

\* lines 80-85
PutOriginal(r) ==
    /\ pc[r] = "put_orig"
    /\ PutObject(r, ORIGINAL_RES)
    /\ pc' = Set(pc, r, "metrics")
    /\ UNCHANGED <<obj, key, metadata, user_id, user_role, custom_quality,
                   keep_original_res, original_size, total_output_size,
                   file_id, idx, output_len, savings, err, result, table>>

\* line 88: the division raises ZeroDivisionError for an empty source
ComputeMetrics(r) ==
    /\ pc[r] = "metrics"
    /\ IF original_size[r] = 0
       THEN /\ RaiseIn(r, "ZeroDivisionError")
            /\ UNCHANGED savings
       ELSE /\ savings' = Set(savings, r, Savings(original_size[r], total_output_size[r]))
            /\ pc' = Set(pc, r, "put_item")
            /\ UNCHANGED err
    /\ UNCHANGED <<obj, key, metadata, user_id, user_role, custom_quality,
                   keep_original_res, original_size, total_output_size,
                   file_id, idx, output_len, result, written, store, table>>

\* lines 91-104: one put_item
PutItem(r) ==
    /\ pc[r] = "put_item"
    /\ table' = Append(table, Item(r))
    /\ pc' = Set(pc, r, "ret")
    /\ UNCHANGED <<obj, locals, err, result, written, store>>

\* line 110
Return(r) ==
    /\ pc[r] = "ret"
    /\ result' = Set(result, r, "200")
    /\ pc' = Set(pc, r, "done")
    /\ UNCHANGED <<obj, locals, err, written, store, table>>

\* head_object, get_object or put_object raises (lines 31, 44, 66, 80)
S3Fails(r) ==
    /\ pc[r] \in {"head", "get", "put", "put_orig"}
    /\ RaiseIn(r, "ClientError")
    /\ UNCHANGED <<obj, locals, result, written, store, table>>

\* save raises (lines 62, 76)
EncodeFails(r) ==
    /\ pc[r] \in {"enc", "enc_orig"}
    /\ RaiseIn(r, "EncodeError")
    /\ UNCHANGED <<obj, locals, result, written, store, table>>

\* put_item raises (line 91): nothing is stored
PutItemFails(r) ==
    /\ pc[r] = "put_item"
    /\ RaiseIn(r, "ClientError")
    /\ UNCHANGED <<obj, locals, result, written, store, table>>

\* lines 106-108: print the error and raise it again
Except(r) ==
    /\ pc[r] = "except"
    /\ store' = StoreAfterExcept(r)
    /\ result' = Set(result, r, Reraised)
    /\ pc' = Set(pc, r, "raised")
    /\ UNCHANGED <<obj, locals, err, written, table>>

Next ==
    \E r \in Runs :
        \/ Invoke(r)
        \/ HeadObject(r)
        \/ ResolveOptions(r)
        \/ GetObject(r)
        \/ OpenImage(r)
        \/ EncodeVariant(r)
        \/ PutVariant(r)
        \/ EncodeOriginal(r)
        \/ PutOriginal(r)
        \/ ComputeMetrics(r)
        \/ PutItem(r)
        \/ Return(r)
        \/ S3Fails(r)
        \/ EncodeFails(r)
        \/ PutItemFails(r)
        \/ Except(r)

Spec == Init /\ [][Next]_vars
SpecConc == InitConc /\ [][Next]_vars
SpecSavings == InitSavings /\ [][Next]_vars

(* ------------------------ vocabulary of the claims -------------------- *)
Failed == {"except", "raised"}
RecordsBy(r) == {i \in 1..Len(table) : table[i].by = r}
Names(r) == [i \in 1..Len(written[r]) |-> written[r][i].name]
RECURSIVE SumLen(_)
SumLen(w) == IF w = <<>> THEN 0 ELSE w[1].len + SumLen(Tail(w))
StandardNames == <<"thumbnails", "medium", "large">>
AllNames == <<"thumbnails", "medium", "large", "original_res">>
IsPrefix(s, t) == Len(s) <= Len(t) /\ s = SubSeq(t, 1, Len(s))
KeysWrittenBy(r) == {written[r][i].key : i \in 1..Len(written[r])}
StoredBy(r) == {k \in AllDestKeys : store[k].by = r}
\* the key without its extension: everything before the last dot
StripExt(k) ==
    IF DotsOf(k) = {} THEN k ELSE SubSeq(k, 1, MaxOf(DotsOf(k)) - 1)
Abs(n) == IF n < 0 THEN 0 - n ELSE n

(* ------------------------------- claims ------------------------------- *)

\* C1: a run that returns 200 has written exactly thumbnails, medium and
\* large, and original_res as well if and only if the keep-original
\* metadata resolves to true; nothing else is written.
C1_ExactVariantSet ==
    \A r \in Runs :
        pc[r] = "done" =>
            /\ Names(r) = IF KeepOriginalOf(obj[r].meta) THEN AllNames
                          ELSE StandardNames
            /\ StoredBy(r) = {DestKey(Names(r)[i], file_id[r]) : i \in 1..Len(written[r])}
C1_Witness ==
    \E r \in Runs :
        /\ pc[r] = "done"
        /\ custom_quality[r] \in 0..100
        /\ KeepOriginalOf(obj[r].meta)
        /\ Len(written[r]) = 4

\* C2 as stated: a run that ended with an error has none of its variant
\* objects in the destination store.
C2_NoPartialState ==
    \A r \in Runs : pc[r] = "raised" => StoredBy(r) = {}
\* C2 amended: a failed run emits no record and does not return 200; the
\* variants it wrote before the failure are a prefix of thumbnails, medium,
\* large, original_res and every one of them stays in the store.
C2_FailedRunKeepsWritten ==
    \A r \in Runs :
        pc[r] \in Failed =>
            /\ RecordsBy(r) = {}
            /\ result[r] # "200"
            /\ IsPrefix(Names(r), AllNames)
            /\ \A i \in 1..Len(written[r]) :
                  store[written[r][i].key] = [len |-> written[r][i].len, by |-> r]
C2_Witness ==
    \E r \in Runs :
        /\ pc[r] = "raised"
        /\ Len(written[r]) \in 1..3
        /\ StoredBy(r) # {}

\* C3: a malformed quality value does not fail the run; quality 80 is used.
C3_MalformedQualityFallsBack ==
    \A r \in Runs :
        (/\ obj[r].meta.quality.present
         /\ ~IntParse(obj[r].meta.quality.s).ok
         /\ pc[r] \notin {"off", "idle", "head", "opts"}) =>
            /\ err[r] # "ValueError"
            /\ custom_quality[r] = 80

\* C4: a run that returns 200 wrote exactly one record, after all of its
\* variant writes; a run in which a stage raised wrote no record, never
\* returns 200 and ends with the error raised again.
C4_RecordOnceAfterVariants ==
    \A r \in Runs :
        /\ Cardinality(RecordsBy(r)) <= 1
        /\ pc[r] = "done" => Cardinality(RecordsBy(r)) = 1 /\ result[r] = "200"
        /\ RecordsBy(r) # {} =>
              Names(r) = IF keep_original_res[r] THEN AllNames ELSE StandardNames
        /\ pc[r] \in Failed => RecordsBy(r) = {} /\ result[r] # "200"
        /\ pc[r] = "raised" => result[r] = "error"
        /\ result[r] = "200" => pc[r] = "done" /\ err[r] = "none"
C4_Witness ==
    \E r \in Runs :
        /\ pc[r] = "done"
        /\ Cardinality(RecordsBy(r)) = 1
        /\ Len(written[r]) >= 3

\* C5: a source that cannot be decoded, a zero-length one included, fails
\* the run with nothing written and no record; the division of line 88 is
\* never reached with original_size = 0.
C5_UndecodableWritesNothing ==
    \A r \in Runs :
        /\ ((~obj[r].valid \/ obj[r].size = 0)
            /\ pc[r] \notin {"off", "idle", "head", "opts", "get", "open"}) =>
              /\ pc[r] \in Failed
              /\ written[r] = <<>>
              /\ StoredBy(r) = {}
              /\ RecordsBy(r) = {}
              /\ result[r] # "200"
        /\ pc[r] = "metrics" => original_size[r] # 0
        /\ err[r] # "ZeroDivisionError"
C5_Witness ==
    \E r \in Runs :
        /\ pc[r] = "raised"
        /\ obj[r].size = 0
        /\ err[r] = "UnidentifiedImageError"
        /\ QualityOf(obj[r].meta).ok

\* C6: total_output_size is the sum of the lengths of the variants encoded
\* so far (the written ones and the one waiting to be written), and when
\* the record is emitted it is the sum of all three or four written ones.
C6_TotalIsSumOfVariants ==
    \A r \in Runs :
        /\ pc[r] \in {"put", "put_orig"} =>
              total_output_size[r] = SumLen(written[r]) + output_len[r]
        /\ pc[r] \in {"enc", "enc_orig", "metrics", "put_item", "ret", "done"} =>
              total_output_size[r] = SumLen(written[r])
        /\ pc[r] \in Failed =>
              total_output_size[r] \in
                  {SumLen(written[r]), SumLen(written[r]) + output_len[r]}
        /\ \A i \in RecordsBy(r) :
              /\ table[i].total_output_kb = Kilobytes(SumLen(written[r]))
              /\ Len(written[r]) = IF keep_original_res[r] THEN 4 ELSE 3
C6_Witness ==
    \E r \in Runs :
        /\ RecordsBy(r) # {}
        /\ Len(written[r]) = 4
        /\ written[r][1].len # written[r][4].len
        /\ total_output_size[r] = SumLen(written[r])

C8_DestKeyStripsExtension ==
    /\ \A r \in Runs : \A i \in 1..Len(written[r]) :
          written[r][i].key = DestKey(written[r][i].name, StripExt(obj[r].key))
    /\ \A r, q \in Runs :
          StripExt(obj[r].key) # StripExt(obj[q].key) =>
              KeysWrittenBy(r) \cap KeysWrittenBy(q) = {}

\* C9: under every interleaving of two runs, a run's record carries the
\* quality of its own metadata, the size of its own source and the summed
\* length of its own variants.
C9_RecordsAreOwn ==
    \A i \in 1..Len(table) :
        LET r == table[i].by
        IN  /\ table[i].quality_used = QualityOf(obj[r].meta).val
            /\ table[i].file_name = obj[r].key
            /\ table[i].original_size_kb = Kilobytes(obj[r].size)
            /\ table[i].total_output_kb = Kilobytes(SumLen(written[r]))
            /\ table[i].savings_percent = Savings(obj[r].size, SumLen(written[r]))
C9_Witness ==
    /\ Len(table) = 2
    /\ table[1].by # table[2].by
    /\ table[1].quality_used # table[2].quality_used
    /\ table[1].total_output_kb # table[2].total_output_kb
    /\ table[1].original_size_kb # table[2].original_size_kb

\* C10: a step of a run whose keep-original option resolves to false leaves
\* the object at original_res/{fileId}.webp as it was.
C10_KeepFalseLeavesOriginal ==
    [][\A r \in Runs :
          (pc'[r] # pc[r] /\ ~KeepOriginalOf(obj[r].meta)) =>
              store'[DestKey("original_res", FileId(obj[r].key))]
                  = store[DestKey("original_res", FileId(obj[r].key))]]_vars
C10_Witness ==
    \E r, q \in Runs :
        /\ r # q
        /\ pc[r] = "done" /\ pc[q] = "done"
        /\ KeepOriginalOf(obj[r].meta) /\ ~KeepOriginalOf(obj[q].meta)
        /\ FileId(obj[r].key) = FileId(obj[q].key)
        /\ store[DestKey("original_res", file_id[q])].by = r
        /\ store[DestKey("thumbnails", file_id[q])].by = q
        /\ store[DestKey("large", file_id[q])].by = q

====
